---- MODULE Spec2Model ----
(***************************************************************************)
(* A model of interleave(): the FunnelQueue, the worker loop process(),    *)
(* the thread pool that runs the workers and the generator body that       *)
(* registers, submits, pulls, cancels and joins.                           *)
(*                                                                         *)
(* One worker exists per source iterator.  A source iterator is an object  *)
(* of the caller: each next(it) returns a value, raises StopIteration or   *)
(* raises another exception, and the model lets it do any of the three     *)
(* (a source yields at most MaxLen values, so every source is finite).     *)
(***************************************************************************)
EXTENDS Integers, Sequences, FiniteSets, TLC

\* Bounds of the explored inputs.
MaxSources == 2
MaxLen == 2
MaxQueue == 2

\* queue_size = None of the source (SimpleQueue, never full) is written 0.
Unbounded == 0

VARIABLES
    iterators,     \* the input: how many source iterators are passed
    max_workers,   \* the input max_workers
    queue_size,    \* the input queue_size (Unbounded for None)
    queue,         \* FunnelQueue.queue
    producer_qty,  \* FunnelQueue.producer_qty
    lock,          \* FunnelQueue.lock: 0 when free, else the worker holding it
    done_flag,     \* the Event done_flag
    futures,       \* number of futures created so far by the list comprehension
    pc,            \* where each worker is
    pos,           \* how many values each source has produced so far
    cstate,        \* where the generator body is
    cidx,          \* index of the `for f in futures` cancel loop
    r,             \* source of the failed Result the generator body holds, or 0
    output,        \* values yielded to the consumer, in order
    result,        \* how the generator ended: "none", "exhausted", "failed", "closed"
    sentinels,     \* history: how many times done_sentinel was enqueued
    firstExc,      \* history: source of the first failed Result enqueued, or 0
    completed,     \* history: the values in the order their next(it) returned
    pushed         \* history: the values in the order they were put in the queue

vars == <<iterators, max_workers, queue_size, queue, producer_qty, lock,
          done_flag, futures, pc, pos, cstate, cidx, r, output, result,
          sentinels, firstExc, completed, pushed>>

Workers == 1..iterators

\* Items of the funnel's queue.
Value(i, k) == <<"val", i, k>>
Exc(i) == <<"exc", i, 0>>
done_sentinel == <<"end", 0, 0>>

\* Result.success
success(x) == x[1] = "val"

\* A worker that a pool thread is executing.
Running(i) == pc[i] \in {"check", "next", "putval", "putexc", "release", "sentinel"}
\* A worker whose future is finished: process() returned, or the future was cancelled.
Finished(i) == pc[i] \in {"exited", "cancelled"}

\* queue.Queue(queue_size).put blocks while the queue holds queue_size items.
Full == queue_size # Unbounded /\ Len(queue) >= queue_size

Init ==
    /\ iterators \in 0..MaxSources
    /\ max_workers \in 1..MaxSources
    /\ queue_size \in 0..MaxQueue
    /\ queue = <<>>
    /\ producer_qty = 0
    /\ lock = 0
    /\ done_flag = FALSE
    /\ futures = 0
    /\ pc = [i \in 1..iterators |-> "unsubmitted"]
    /\ pos = [i \in 1..iterators |-> 0]
    /\ cstate = "submit"
    /\ cidx = 0
    /\ r = 0
    /\ output = <<>>
    /\ result = "none"
    /\ sentinels = 0
    /\ firstExc = 0
    /\ completed = <<>>
    /\ pushed = <<>>

----------------------------------------------------------------------------
(* FunnelQueue *)

\* putting(): under the lock, producer_qty += 1.
putting ==
    /\ lock = 0
    /\ producer_qty' = producer_qty + 1

\* A put that adds at the head of the queue instead of the tail.
put_at_head(x) ==
    /\ ~Full
    /\ queue' = <<x>> \o queue

\* FunnelQueue.put of a Result: blocks while the queue is full.
put(x) ==
    /\ ~Full
    /\ queue' = Append(queue, x)

\* A finally block that keeps the lock when the count has not reached 0.
close_one_leaking_lock(i) ==
    /\ lock = 0
    /\ producer_qty' = producer_qty - 1
    /\ lock' = i
    /\ pc' = [pc EXCEPT ![i] = IF producer_qty - 1 = 0 THEN "sentinel" ELSE "exited"]

\* A finally block that forgets the decrement.
close_one_keeping_count(i) ==
    /\ lock = 0
    /\ producer_qty' = producer_qty
    /\ lock' = lock
    /\ pc' = [pc EXCEPT ![i] = "exited"]

\* _close_one, the finally block: take the lock, decrement, and when the count
\* reaches 0 go on to put the sentinel with the lock still held.
close_one(i) ==
    /\ lock = 0
    /\ producer_qty' = producer_qty - 1
    /\ IF producer_qty - 1 = 0
         THEN /\ lock' = i
              /\ pc' = [pc EXCEPT ![i] = "sentinel"]
         ELSE /\ lock' = lock
              /\ pc' = [pc EXCEPT ![i] = "exited"]

----------------------------------------------------------------------------
(* The thread pool *)

\* ThreadPoolExecutor runs work items first in, first out, on at most
\* max_workers threads; a cancelled work item is dropped when it is dequeued.
CanStart(i) ==
    /\ pc[i] = "pending"
    /\ \A j \in 1..(i - 1) : pc[j] # "pending"
    /\ Cardinality({j \in Workers : Running(j)}) < max_workers

\* A pool thread dequeues worker i's work item and calls process(): `with ctx`.
Start(i) ==
    /\ CanStart(i)
    /\ pc' = [pc EXCEPT ![i] = "check"]
    /\ UNCHANGED <<iterators, max_workers, queue_size, queue, producer_qty, lock,
                   done_flag, futures, pos, cstate, cidx, r, output, result,
                   sentinels, firstExc,
                   completed, pushed>>

----------------------------------------------------------------------------
(* process(ctx, it) *)

\* A loop that never looks at done_flag.
Check_ignoring_flag(i) ==
    /\ pc[i] = "check"
    /\ pc' = [pc EXCEPT ![i] = "next"]
    /\ UNCHANGED <<iterators, max_workers, queue_size, queue, producer_qty, lock,
                   done_flag, futures, pos, cstate, cidx, r, output, result,
                   sentinels, firstExc,
                   completed, pushed>>

\* `while not done_flag.is_set()`: the advance begins here, or the loop is left.
Check(i) ==
    /\ pc[i] = "check"
    /\ pc' = [pc EXCEPT ![i] = IF done_flag THEN "release" ELSE "next"]
    /\ UNCHANGED <<iterators, max_workers, queue_size, queue, producer_qty, lock,
                   done_flag, futures, pos, cstate, cidx, r, output, result,
                   sentinels, firstExc,
                   completed, pushed>>

\* What a call of next(it) can do on a source that has yielded k values.
Outcomes(k) == (IF k < MaxLen THEN {"value"} ELSE {}) \cup {"stop", "raise"}

\* next(it) returns a value (else:), raises StopIteration (return), or raises
\* another exception (except BaseException).
Advance(i) ==
    /\ pc[i] = "next"
    /\ \E o \in Outcomes(pos[i]) :
         /\ pos' = [pos EXCEPT ![i] = IF o = "value" THEN pos[i] + 1 ELSE pos[i]]
         /\ pc' = [pc EXCEPT ![i] = CASE o = "value" -> "putval"
                                      [] o = "stop" -> "release"
                                      [] o = "raise" -> "putexc"]
         /\ completed' = IF o = "value" THEN Append(completed, <<i, pos[i] + 1>>)
                                         ELSE completed
    /\ UNCHANGED <<iterators, max_workers, queue_size, queue, producer_qty, lock,
                   done_flag, futures, cstate, cidx, r, output, result,
                   sentinels, firstExc, pushed>>

\* A worker that drops its value when the stop signal is already set.
PutValue_dropping_when_stopped(i) ==
    /\ pc[i] = "putval"
    /\ IF done_flag
         THEN UNCHANGED <<queue, pushed>>
         ELSE /\ put(Value(i, pos[i]))
              /\ pushed' = Append(pushed, <<i, pos[i]>>)
    /\ pc' = [pc EXCEPT ![i] = "check"]
    /\ UNCHANGED <<iterators, max_workers, queue_size, producer_qty, lock,
                   done_flag, futures, pos, cstate, cidx, r, output, result,
                   sentinels, firstExc, completed>>

\* funnel.put(Result(x)), then back to the loop condition.
PutValue(i) ==
    /\ pc[i] = "putval"
    /\ put(Value(i, pos[i]))
    /\ pc' = [pc EXCEPT ![i] = "check"]
    /\ pushed' = Append(pushed, <<i, pos[i]>>)
    /\ UNCHANGED <<iterators, max_workers, queue_size, producer_qty, lock,
                   done_flag, futures, pos, cstate, cidx, r, output, result,
                   sentinels, firstExc, completed>>

\* A worker that goes back to its loop after putting a failure.
PutExc_retrying(i) ==
    /\ pc[i] = "putexc"
    /\ put(Exc(i))
    /\ pc' = [pc EXCEPT ![i] = "check"]
    /\ firstExc' = IF firstExc = 0 THEN i ELSE firstExc
    /\ UNCHANGED <<iterators, max_workers, queue_size, producer_qty, lock,
                   done_flag, futures, pos, cstate, cidx, r, output, result,
                   sentinels,
                   completed, pushed>>

\* funnel.put(Result.for_exc()), then return.
PutExc(i) ==
    /\ pc[i] = "putexc"
    /\ put(Exc(i))
    /\ pc' = [pc EXCEPT ![i] = "release"]
    /\ firstExc' = IF firstExc = 0 THEN i ELSE firstExc
    /\ UNCHANGED <<iterators, max_workers, queue_size, producer_qty, lock,
                   done_flag, futures, pos, cstate, cidx, r, output, result,
                   sentinels,
                   completed, pushed>>

\* Leaving `with ctx`: the finally block of _close_one.
Release(i) ==
    /\ pc[i] = "release"
    /\ close_one(i)
    /\ UNCHANGED <<iterators, max_workers, queue_size, queue,
                   done_flag, futures, pos, cstate, cidx, r, output, result,
                   sentinels, firstExc,
                   completed, pushed>>

\* self.put(done_sentinel) inside the lock, then the lock is released.
PutSentinel(i) ==
    /\ pc[i] = "sentinel"
    /\ put(done_sentinel)
    /\ lock' = 0
    /\ sentinels' = sentinels + 1
    /\ pc' = [pc EXCEPT ![i] = "exited"]
    /\ UNCHANGED <<iterators, max_workers, queue_size, producer_qty,
                   done_flag, futures, pos, cstate, cidx, r, output, result,
                   firstExc,
                   completed, pushed>>

----------------------------------------------------------------------------
(* The generator body of interleave() *)

\* One round of the list comprehension: funnel.putting(), then pool.submit().
Submit ==
    /\ cstate = "submit"
    /\ futures < iterators
    /\ putting
    /\ futures' = futures + 1
    /\ pc' = [pc EXCEPT ![futures + 1] = "pending"]
    /\ UNCHANGED <<iterators, max_workers, queue_size, queue, lock,
                   done_flag, pos, cstate, cidx, r, output, result,
                   sentinels, firstExc,
                   completed, pushed>>

\* A body without `if not futures: return`: it always enters the loop.
Submitted_no_return ==
    /\ cstate = "submit"
    /\ futures = iterators
    /\ cstate' = "get"
    /\ result' = result
    /\ UNCHANGED <<iterators, max_workers, queue_size, queue, producer_qty, lock,
                   done_flag, futures, pc, pos, cidx, r, output,
                   sentinels, firstExc,
                   completed, pushed>>

\* The list is complete: `if not futures: return`, else enter the loop.
Submitted ==
    /\ cstate = "submit"
    /\ futures = iterators
    /\ IF futures = 0
         THEN /\ cstate' = "join"
              /\ result' = "exhausted"
         ELSE /\ cstate' = "get"
              /\ result' = result
    /\ UNCHANGED <<iterators, max_workers, queue_size, queue, producer_qty, lock,
                   done_flag, futures, pc, pos, cidx, r, output,
                   sentinels, firstExc,
                   completed, pushed>>

\* A get that takes the newest item of the queue instead of the oldest.
Get_from_tail ==
    /\ cstate = "get"
    /\ queue # <<>>
    /\ queue' = SubSeq(queue, 1, Len(queue) - 1)
    /\ LET x == queue[Len(queue)] IN
         IF x = done_sentinel
           THEN /\ cstate' = "join"
                /\ result' = "exhausted"
                /\ UNCHANGED <<r, output>>
           ELSE IF success(x)
             THEN /\ cstate' = "yield"
                  /\ output' = Append(output, <<x[2], x[3]>>)
                  /\ UNCHANGED <<r, result>>
             ELSE /\ cstate' = "setflag"
                  /\ r' = x[2]
                  /\ UNCHANGED <<output, result>>
    /\ UNCHANGED <<iterators, max_workers, queue_size, producer_qty, lock,
                   done_flag, futures, pc, pos, cidx, sentinels, firstExc,
                   completed, pushed>>

\* r = funnel.get(): blocks on an empty queue; the sentinel raises
\* EndOfInputError (break), a value is yielded, a failure enters the if.
Get ==
    /\ cstate = "get"
    /\ queue # <<>>
    /\ queue' = Tail(queue)
    /\ LET x == Head(queue) IN
         IF x = done_sentinel
           THEN /\ cstate' = "join"
                /\ result' = "exhausted"
                /\ UNCHANGED <<r, output>>
           ELSE IF success(x)
             THEN /\ cstate' = "yield"
                  /\ output' = Append(output, <<x[2], x[3]>>)
                  /\ UNCHANGED <<r, result>>
             ELSE /\ cstate' = "setflag"
                  /\ r' = x[2]
                  /\ UNCHANGED <<output, result>>
    /\ UNCHANGED <<iterators, max_workers, queue_size, producer_qty, lock,
                   done_flag, futures, pc, pos, cidx, sentinels, firstExc,
                   completed, pushed>>

\* The consumer calls next() on the generator suspended at the yield.
Resume ==
    /\ cstate = "yield"
    /\ cstate' = "get"
    /\ UNCHANGED <<iterators, max_workers, queue_size, queue, producer_qty, lock,
                   done_flag, futures, pc, pos, cidx, r, output, result,
                   sentinels, firstExc,
                   completed, pushed>>

\* The consumer closes (or drops) the generator suspended at the yield:
\* GeneratorExit leaves the loop and reaches the pool's __exit__.
Close ==
    /\ cstate = "yield"
    /\ cstate' = "join"
    /\ result' = "closed"
    /\ UNCHANGED <<iterators, max_workers, queue_size, queue, producer_qty, lock,
                   done_flag, futures, pc, pos, cidx, r, output,
                   sentinels, firstExc,
                   completed, pushed>>

\* done_flag.set()
SetFlag ==
    /\ cstate = "setflag"
    /\ done_flag' = TRUE
    /\ cstate' = "cancel"
    /\ cidx' = 1
    /\ UNCHANGED <<iterators, max_workers, queue_size, queue, producer_qty, lock,
                   futures, pc, pos, r, output, result, sentinels, firstExc,
                   completed, pushed>>

\* A cancel loop whose f.cancel() has no effect.
Cancel_skipping ==
    /\ cstate = "cancel"
    /\ pc' = pc
    /\ IF cidx = futures
         THEN /\ cstate' = "join"
              /\ result' = "failed"
              /\ cidx' = cidx
         ELSE /\ cidx' = cidx + 1
              /\ UNCHANGED <<cstate, result>>
    /\ UNCHANGED <<iterators, max_workers, queue_size, queue, producer_qty, lock,
                   done_flag, futures, pos, r, output, sentinels, firstExc,
                   completed, pushed>>

\* One round of `for f in futures: f.cancel()`; after the last one r.get()
\* raises and the exception reaches the pool's __exit__.
Cancel ==
    /\ cstate = "cancel"
    /\ pc' = [pc EXCEPT ![cidx] = IF pc[cidx] = "pending" THEN "cancelled" ELSE pc[cidx]]
    /\ IF cidx = futures
         THEN /\ cstate' = "join"
              /\ result' = "failed"
              /\ cidx' = cidx
         ELSE /\ cidx' = cidx + 1
              /\ UNCHANGED <<cstate, result>>
    /\ UNCHANGED <<iterators, max_workers, queue_size, queue, producer_qty, lock,
                   done_flag, futures, pos, r, output, sentinels, firstExc,
                   completed, pushed>>

\* A shutdown that does not wait for the threads.
Joined_nowait == TRUE

\* ThreadPoolExecutor.__exit__: shutdown(wait=True) returns when every work
\* item was run or dropped and every thread has ended.
Joined == \A i \in Workers : Finished(i)

Join ==
    /\ cstate = "join"
    /\ Joined
    /\ cstate' = "done"
    /\ UNCHANGED <<iterators, max_workers, queue_size, queue, producer_qty, lock,
                   done_flag, futures, pc, pos, cidx, r, output, result,
                   sentinels, firstExc,
                   completed, pushed>>

----------------------------------------------------------------------------

Next ==
    \/ Submit
    \/ Submitted
    \/ Get
    \/ Resume
    \/ Close
    \/ SetFlag
    \/ Cancel
    \/ Join
    \/ \E i \in Workers : Start(i)
    \/ \E i \in Workers : Check(i)
    \/ \E i \in Workers : Advance(i)
    \/ \E i \in Workers : PutValue(i)
    \/ \E i \in Workers : PutExc(i)
    \/ \E i \in Workers : Release(i)
    \/ \E i \in Workers : PutSentinel(i)

Spec == Init /\ [][Next]_vars

----------------------------------------------------------------------------
(* The FINISH_CURRENT policy (onerror=FINISH_CURRENT) *)

\* A FINISH_CURRENT loop that sets the stop signal on a failure.
Get_fc_setting_flag ==
    /\ cstate = "get"
    /\ queue # <<>>
    /\ queue' = Tail(queue)
    /\ LET x == Head(queue) IN
         IF x = done_sentinel
           THEN /\ cstate' = "join"
                /\ result' = IF r # 0 THEN "failed" ELSE "exhausted"
                /\ UNCHANGED <<r, output, done_flag>>
           ELSE IF success(x)
             THEN /\ cstate' = "yield"
                  /\ output' = Append(output, <<x[2], x[3]>>)
                  /\ UNCHANGED <<r, result, done_flag>>
             ELSE /\ r' = IF r = 0 THEN x[2] ELSE r
                  /\ done_flag' = TRUE
                  /\ UNCHANGED <<cstate, output, result>>
    /\ UNCHANGED <<iterators, max_workers, queue_size, producer_qty, lock,
                   futures, pc, pos, cidx, sentinels, firstExc,
                   completed, pushed>>

\* The pull loop under FINISH_CURRENT: a value is yielded; the first failure
\* is recorded and later ones are discarded, with the stop signal left alone
\* and no future cancelled; at EndOfInput the recorded failure, if any, is
\* raised.
Get_finish_current ==
    /\ cstate = "get"
    /\ queue # <<>>
    /\ queue' = Tail(queue)
    /\ LET x == Head(queue) IN
         IF x = done_sentinel
           THEN /\ cstate' = "join"
                /\ result' = IF r # 0 THEN "failed" ELSE "exhausted"
                /\ UNCHANGED <<r, output, done_flag>>
           ELSE IF success(x)
             THEN /\ cstate' = "yield"
                  /\ output' = Append(output, <<x[2], x[3]>>)
                  /\ UNCHANGED <<r, result, done_flag>>
             ELSE /\ r' = IF r = 0 THEN x[2] ELSE r
                  /\ UNCHANGED <<cstate, output, result, done_flag>>
    /\ UNCHANGED <<iterators, max_workers, queue_size, producer_qty, lock,
                   futures, pc, pos, cidx, sentinels, firstExc,
                   completed, pushed>>

NextFC ==
    \/ Submit
    \/ Submitted
    \/ Get_finish_current
    \/ Resume
    \/ Close
    \/ Join
    \/ \E i \in Workers : Start(i)
    \/ \E i \in Workers : Check(i)
    \/ \E i \in Workers : Advance(i)
    \/ \E i \in Workers : PutValue(i)
    \/ \E i \in Workers : PutExc(i)
    \/ \E i \in Workers : Release(i)
    \/ \E i \in Workers : PutSentinel(i)

SpecFC == Init /\ [][NextFC]_vars

----------------------------------------------------------------------------
(* Unbounded buffering with a consumer that keeps pulling *)

\* The steps of interleave() when the consumer never closes the generator.
NextPulling ==
    \/ Submit
    \/ Submitted
    \/ Get
    \/ Resume
    \/ SetFlag
    \/ Cancel
    \/ Join
    \/ \E i \in Workers : Start(i)
    \/ \E i \in Workers : Check(i)
    \/ \E i \in Workers : Advance(i)
    \/ \E i \in Workers : PutValue(i)
    \/ \E i \in Workers : PutExc(i)
    \/ \E i \in Workers : Release(i)
    \/ \E i \in Workers : PutSentinel(i)

\* queue_size omitted.
InitUnbounded == Init /\ queue_size = Unbounded

\* Every thread that can take a step eventually does, and the consumer calls
\* next() again after every value.
SpecPullingFair ==
    /\ InitUnbounded
    /\ [][NextPulling]_vars
    /\ WF_vars(NextPulling)

----------------------------------------------------------------------------
(* Properties *)

\* The values of source i among the yielded ones, in the order yielded.
OutputOf(i) == SelectSeq(output, LAMBDA v : v[1] = i)

\* How many times value v was yielded.
Count(v) == Cardinality({k \in 1..Len(output) : output[k] = v})

\* The generator body has pulled a failed Result from the funnel.
FailureObserved == cstate \in {"setflag", "cancel"} \/ result = "failed"

\* Worker i begins an advance in this step.
StartsAdvance(i) == pc[i] # "next" /\ pc'[i] = "next"

\* C1: when no source fails and the consumer pulls to exhaustion, every value
\* produced by every source has been yielded exactly once, and nothing else.
C1_EveryValueExactlyOnce ==
    (cstate = "done" /\ result = "exhausted" /\ firstExc = 0) =>
        /\ \A i \in Workers : \A k \in 1..pos[i] : Count(<<i, k>>) = 1
        /\ Len(output) = Cardinality({v \in Workers \X (1..MaxLen) : v[2] <= pos[v[1]]})

\* C2: once any worker has begun executing process(), putting() has been
\* called for every source.
C2_AllRegisteredBeforeAnyRuns ==
    (\E i \in Workers : Running(i) \/ pc[i] = "exited") => futures = iterators

\* C3: done_sentinel is enqueued at most once over the life of the funnel.
C3_SentinelAtMostOnce == sentinels <= 1

\* C4: once the generator body has received EndOfInputError, every worker has
\* terminated (none running, none waiting in the pool).
C4_EndOfInputAfterAllWorkers ==
    result = "exhausted" => \A i \in Workers : Finished(i)

\* C5: interleave() never deadlocks: as long as the consumer has not closed
\* the generator, either it has completed or some thread can take a step.
C5_NeverDeadlocks ==
    result # "closed" => (cstate = "done" \/ ENABLED Next)

\* C6: when the consumer closes the generator early, the stop signal is set.
C6_CloseSetsStopSignal == result = "closed" => done_flag

\* C7 as stated: once a failed Result has been pulled from the funnel, no
\* worker begins a new advance.
C7_NoAdvanceAfterFailurePulled ==
    [][FailureObserved => \A i \in Workers : ~StartsAdvance(i)]_vars

\* C7 as amended: once done_flag is set, no worker begins a new advance; the
\* advances in flight when it is set may complete.
C7_NoAdvanceAfterFlagSet ==
    [][done_flag => \A i \in Workers : ~StartsAdvance(i)]_vars

\* C7 witness: done_flag is set and a worker that has put a value stands at the
\* loop test with its source able to yield more.
C7_Witness ==
    /\ done_flag
    /\ \E i \in Workers : pc[i] = "check" /\ pos[i] >= 1 /\ pos[i] < MaxLen

\* C8: when the generator reports completion (StopIteration or the raised
\* failure), no worker is running or waiting, and every worker that started
\* has released its registration: the only registrations left are those of
\* cancelled futures.
C8_NoWorkerRunningAtCompletion ==
    (cstate = "done" /\ result \in {"exhausted", "failed"}) =>
        /\ \A i \in Workers : Finished(i)
        /\ producer_qty = Cardinality({i \in Workers : pc[i] = "cancelled"})
        /\ lock = 0

\* C8 witness: the failure was raised after two workers ran and exited.
C8_Witness ==
    /\ cstate = "done"
    /\ result = "failed"
    /\ Cardinality({i \in Workers : pc[i] = "exited"}) >= 2

\* C9: when some source has failed and the consumer pulled to the end, the
\* generator ended by raising the first failure in funnel order.
C9_FirstFailureSurfaced ==
    (cstate = "done" /\ result # "closed" /\ firstExc # 0) =>
        (result = "failed" /\ r = firstExc)

\* C10: for every source, its values among the yielded ones are its first,
\* second, ... value in that order: a prefix of the source, in source order.
C10_PerSourceOrder ==
    \A i \in Workers :
        OutputOf(i) = [k \in 1..Len(OutputOf(i)) |-> <<i, k>>]

\* C10 witness: two values of one source were yielded with a value of
\* another source between them.
C10_Witness ==
    \E i, j \in Workers :
        /\ i # j
        /\ Len(output) >= 3
        /\ \E a, b, c \in 1..Len(output) :
             /\ a < b /\ b < c
             /\ output[a] = <<i, 1>>
             /\ output[b][1] = j
             /\ output[c] = <<i, 2>>

\* The place of value v in the sequence h of distinct values.
Index(h, v) == CHOOSE k \in 1..Len(h) : h[k] = v

\* C11 as stated: values are yielded in the order in which the advances that
\* produced them completed.
C11_YieldedInCompletionOrder ==
    \A m, n \in 1..Len(output) :
        m < n => Index(completed, output[m]) < Index(completed, output[n])

\* C11 as amended: values are yielded in the order in which they were pushed
\* into the funnel.
C11_YieldedInPushOrder ==
    \A m, n \in 1..Len(output) :
        m < n => Index(pushed, output[m]) < Index(pushed, output[n])

\* C11 witness: two values of different sources were yielded in push order,
\* the one pushed first being the one whose advance completed last.
C11_Witness ==
    \E m, n \in 1..Len(output) :
        /\ m < n
        /\ output[m][1] # output[n][1]
        /\ Index(pushed, output[m]) < Index(pushed, output[n])
        /\ Index(completed, output[n]) < Index(completed, output[m])

C13_AllValuesThenFirstFailure ==
    (cstate = "done" /\ result # "closed") =>
        /\ \A i \in Workers : \A k \in 1..pos[i] : Count(<<i, k>>) = 1
        /\ firstExc # 0 => (result = "failed" /\ r = firstExc)
        /\ firstExc = 0 => result = "exhausted"

\* C14 as stated: once a failed Result has been pulled, no worker waiting in
\* the pool's queue starts running.
C14_NoStartAfterFailurePulled ==
    [][FailureObserved => \A i \in Workers : ~(pc[i] = "pending" /\ pc'[i] = "check")]_vars

\* C14 as amended: a worker whose future was cancelled while pending never
\* runs and never advances its source, and once the cancel loop is over no
\* worker is left waiting in the pool's queue.
C14_CancelledNeverStarts ==
    [][\A i \in Workers :
         /\ pc[i] = "cancelled" => (pc'[i] = "cancelled" /\ pos'[i] = 0)
         /\ result' = "failed" => pc'[i] # "pending"]_vars

\* C14 witness: the generator has ended with a future that was cancelled
\* while it waited for a pool thread.
C14_Witness ==
    /\ cstate = "done"
    /\ result = "failed"
    /\ \E i \in Workers : pc[i] = "cancelled"

\* C15: with zero sources nothing is yielded, no worker exists, the funnel is
\* never pulled (the body never reaches funnel.get()), the body is never
\* blocked, and it ends exhausted.
C15_ZeroSources ==
    iterators = 0 =>
        /\ output = <<>>
        /\ futures = 0 /\ producer_qty = 0 /\ queue = <<>>
        /\ cstate \in {"submit", "join", "done"}
        /\ result \in {"none", "exhausted"}
        /\ cstate = "done" \/ ENABLED Next

\* C15 witness: the generator given zero sources has ended, exhausted.
C15_Witness ==
    /\ iterators = 0
    /\ cstate = "done"
    /\ result = "exhausted"

\* The workers that have run the decrement of their finally block.
Released == {i \in Workers : pc[i] \in {"sentinel", "exited"}}

\* C16: producer_qty is never negative, and it is the number of registrations
\* made so far (one per future) minus the number of workers that have left
\* their loop and run its release.
C16_ProducerQtyIsRegisteredMinusReleased ==
    /\ producer_qty >= 0
    /\ producer_qty = futures - Cardinality(Released)

\* C16 witness: after a failure one worker has left and released while the
\* other, registered too, is still in its loop.
C16_Witness ==
    /\ futures = 2
    /\ producer_qty = 1
    /\ done_flag
    /\ \E i, j \in Workers : pc[i] = "exited" /\ pc[j] \in {"check", "next", "putval"}

\* C17: no worker is blocked putting into a full queue while it holds the
\* funnel's lock (so that nobody can be kept waiting for the lock behind a
\* blocked put).
C17_NoBlockedPutUnderLock ==
    \A i \in Workers : ~(lock = i /\ pc[i] = "sentinel" /\ Full)

\* This step adds an item of source i to the queue.
AddsItemOf(i) == Len(queue') > Len(queue) /\ queue'[Len(queue')][2] = i

C19_EventuallyDone ==
    <>(/\ cstate = "done"
       /\ result \in {"exhausted", "failed"}
       /\ \A i \in Workers : Finished(i))

\* C19 witness: with one pool thread and unbounded buffering, the generator
\* has ended exhausted after yielding values of the last source.
C19_Witness ==
    /\ queue_size = Unbounded
    /\ max_workers = 1
    /\ iterators = MaxSources
    /\ cstate = "done"
    /\ result = "exhausted"
    /\ \E k \in 1..Len(output) : output[k][1] = MaxSources

\* The worker has left its loop.
Left(i) == pc[i] \in {"release", "sentinel", "exited"}

\* C20: a failed Result of source i is put only by worker i holding the
\* exception of its last advance, which then leaves its loop; a worker that
\* has left its loop stays out of it, advances nothing and puts nothing; and
\* StopIteration leaves the loop without putting anything.
C20_OneFailureThenExit ==
    [][\A i \in Workers :
         /\ pc[i] = "putexc" =>
              \/ pc'[i] = "putexc" /\ ~AddsItemOf(i)
              \/ pc'[i] = "release" /\ queue' = Append(queue, Exc(i))
         /\ Left(i) => (Left(i)' /\ pos'[i] = pos[i] /\ ~AddsItemOf(i))
         /\ (AddsItemOf(i) /\ queue'[Len(queue')] = Exc(i)) => pc[i] = "putexc"
         /\ (pc[i] = "next" /\ pc'[i] = "release") => queue' = queue]_vars

\* C20 witness: a worker has exited after putting its failure, which is
\* still in the queue, while the other worker exited without any value.
C20_Witness ==
    \E i, j \in Workers :
        /\ i # j
        /\ pc[i] = "exited" /\ pc[j] = "exited"
        /\ \E k \in 1..Len(queue) : queue[k] = Exc(i)
        /\ pos[j] = 0 /\ firstExc = i
        /\ \A k \in 1..Len(queue) : queue[k][2] # j

====
